---- MODULE Spec2Model ----
(***************************************************************************)
(* Model of the p0weruser feature modules AutoSubtitles (both variants in  *)
(* the repository) and EventHandler.                                       *)
(*                                                                         *)
(* Strings are sequences of one-character strings, so that the regular     *)
(* expression of generateSubtitleUrl, String.includes and String.startsWith*)
(* are computed on characters, as the code computes them.                  *)
(***************************************************************************)
EXTENDS Integers, Sequences, FiniteSets, TLC

(***************************************************************************)
(* String literals of the source                                           *)
(***************************************************************************)
HttpsScheme == <<"h", "t", "t", "p", "s", ":">>
HttpScheme == <<"h", "t", "t", "p", ":">>
FtpScheme == <<"f", "t", "p", ":">>
XHttpsScheme == <<"x", "h", "t", "t", "p", "s", ":">>
NoScheme == <<>>
SlashSlash == <<"/", "/">>
Slash == <<"/">>
VideosHost == <<"v", "i", "d", "e", "o", "s", ".", "p", "r", "0", "g", "r", "a", "m", "m", ".", "c", "o", "m">>
ImagesHost == <<"i", "m", "a", "g", "e", "s", ".", "p", "r", "0", "g", "r", "a", "m", "m", ".", "c", "o", "m">>
LookalikeHost == <<"v", "i", "d", "e", "o", "s", "x", "p", "r", "0", "g", "r", "a", "m", "m", ".", "c", "o", "m">>
Mp4Ext == <<".", "m", "p", "4">>
WebmExt == <<".", "w", "e", "b", "m">>
Mp4QueryExt == <<".", "m", "p", "4", "?", "x">>
UpperMp4Ext == <<".", "M", "P", "4">>
JpgExt == <<".", "j", "p", "g">>
VttSuffix == <<"-", "d", "e", ".", "v", "t", "t">>
PathShort == <<"a">>
PathScenario == <<"2", "0", "2", "5", "/", "0", "9", "/", "1", "6", "/", "4", "3", "4", "0", "5", "b", "4", "4", "2", "c", "c", "d", "5", "0", "8", "6">>
PathDotted == <<"a", ".", "m", "p", "4">>
PathNewline == <<"a", "\n", "b">>
PathEmpty == <<>>

\* The characters the regular expression's "." does not match (no s flag).
LineTerminators == {"\n", "\r"}

(***************************************************************************)
(* String primitives                                                       *)
(***************************************************************************)
\* String.prototype.startsWith
StartsWith(s, p) ==
    /\ Len(s) >= Len(p)
    /\ SubSeq(s, 1, Len(p)) = p

\* the "$"-anchored tail of a match
EndsWith(s, p) ==
    /\ Len(s) >= Len(p)
    /\ SubSeq(s, Len(s) - Len(p) + 1, Len(s)) = p

\* String.prototype.includes
Includes(s, p) ==
    \E k \in 1..(Len(s) - Len(p) + 1) : SubSeq(s, k, k + Len(p) - 1) = p

\* optional values: null / undefined against a value
None == [some |-> FALSE, val |-> <<>>]

Some(v) == [some |-> TRUE, val |-> v]

(***************************************************************************)
(* generateSubtitleUrl: /^https?:\/\/videos\.pr0gramm\.com\/(.+)\.mp4$/    *)
(***************************************************************************)
\* the literal text the pattern requires before the capture group
VideoUrlPrefixes ==
    { HttpScheme \o SlashSlash \o VideosHost \o Slash,
      HttpsScheme \o SlashSlash \o VideosHost \o Slash }

\* match[1] for the prefix p that matched: everything between prefix and ".mp4"
CaptureGroup(videoUrl, p) ==
    SubSeq(videoUrl, Len(p) + 1, Len(videoUrl) - Len(Mp4Ext))

\* videoUrl.match(videoUrlPattern) succeeds with prefix p
PatternMatches(videoUrl, p) ==
    /\ StartsWith(videoUrl, p)
    /\ EndsWith(videoUrl, Mp4Ext)
    /\ Len(videoUrl) >= Len(p) + 1 + Len(Mp4Ext)
    /\ \A k \in 1..Len(CaptureGroup(videoUrl, p)) :
          CaptureGroup(videoUrl, p)[k] \notin LineTerminators

\* a plausible slip: the scheme is not anchored to http/https
GenerateAnyScheme(videoUrl) ==
    LET tail == SlashSlash \o VideosHost \o Slash
        cut == { k \in 1..Len(videoUrl) :
                    /\ k + Len(tail) - 1 <= Len(videoUrl)
                    /\ SubSeq(videoUrl, k, k + Len(tail) - 1) = tail
                    /\ k > 1 }
    IN IF cut # {} /\ EndsWith(videoUrl, Mp4Ext)
       THEN LET k == CHOOSE x \in cut : \A y \in cut : x <= y
                g == SubSeq(videoUrl, k + Len(tail), Len(videoUrl) - Len(Mp4Ext))
            IN IF g # <<>> /\ (\A j \in 1..Len(g) : g[j] \notin LineTerminators)
               THEN Some(HttpsScheme \o SlashSlash \o ImagesHost \o Slash \o g \o VttSuffix)
               ELSE None
       ELSE None

\* a plausible slip: the pattern accepts any host, ^https?:\/\/[^/]+\/(.+)\.mp4$
GenerateAnyHost(videoUrl) ==
    LET heads == { p \in {HttpScheme \o SlashSlash, HttpsScheme \o SlashSlash} :
                      StartsWith(videoUrl, p) }
        cut == { k \in 1..Len(videoUrl) :
                    /\ videoUrl[k] = "/"
                    /\ \E p \in heads : k > Len(p) + 1 }
    IN IF cut # {} /\ EndsWith(videoUrl, Mp4Ext)
       THEN LET k == CHOOSE x \in cut : \A y \in cut : x <= y
                g == SubSeq(videoUrl, k + 1, Len(videoUrl) - Len(Mp4Ext))
            IN IF g # <<>> /\ (\A j \in 1..Len(g) : g[j] \notin LineTerminators)
               THEN Some(HttpsScheme \o SlashSlash \o ImagesHost \o Slash \o g \o VttSuffix)
               ELSE None
       ELSE None

generateSubtitleUrl(videoUrl) ==
    IF \E p \in VideoUrlPrefixes : PatternMatches(videoUrl, p)
    THEN LET p == CHOOSE q \in VideoUrlPrefixes : PatternMatches(videoUrl, q)
         IN Some(HttpsScheme \o SlashSlash \o ImagesHost \o Slash
                   \o CaptureGroup(videoUrl, p) \o VttSuffix)
    ELSE None

(***************************************************************************)
(* Bounds of the model                                                     *)
(***************************************************************************)
\* itemOpened events / show() calls in one run
MaxOpen == 2

\* caption-toggle elements the host creates in one run
MaxToggles == 1

(***************************************************************************)
(* State                                                                   *)
(***************************************************************************)
VARIABLES
    urlParts,   \* the pieces the input of generateSubtitleUrl is built from
    videoUrl,   \* the input string of generateSubtitleUrl
    urlResult,  \* what generateSubtitleUrl returned for it, once called
    impl,       \* which AutoSubtitles variant is loaded: "event" or "view"
    items,      \* the host's item records: image and subtitles
    inv,        \* the invocations of the itemOpened handler / of show()
    probeLog,   \* the HEAD requests issued, in order
    docItem,    \* the item whose view is in the document (0: none)
    hostShown,  \* view variant: the items the host's original show rendered
    toggle,     \* the caption toggle element in the document (0: none)
    toggles,    \* every toggle element created: marker, listeners, checked
    vtracks,    \* per item container: the track elements of its video
    trackInfo,  \* every track element created: attributes and display mode
    acts,       \* the activateSubtitleControls calls: attempts, interval
    timers100,  \* the pending 100 ms timers, in the order of their deadlines
    autoTimers, \* pending auto-enable timeouts: toggle and track captured
    events,     \* EventHandler: the fields set on its Event objects
    lastCall    \* EventHandler: the last call of a wrapped host method

urlVars == <<urlParts, videoUrl, urlResult>>

subVars ==
    <<impl, items, inv, probeLog, docItem, hostShown, toggle, toggles,
      vtracks, trackInfo, acts, timers100, autoTimers>>

ehVars == <<events, lastCall>>

vars == <<urlVars, subVars, ehVars>>

(***************************************************************************)
(* The host's items and item views                                         *)
(***************************************************************************)
ItemIds == 1..6

\* the caption descriptors the host itself delivers with an item
HostDe ==
    [path |-> HttpsScheme \o SlashSlash \o ImagesHost \o Slash \o PathShort \o VttSuffix,
     label |-> "Deutsch", language |-> "de", isDefault |-> TRUE]

HostEn ==
    [path |-> HttpsScheme \o SlashSlash \o ImagesHost \o Slash \o PathDotted,
     label |-> "English", language |-> "en", isDefault |-> FALSE]

\* the feed: one item per case of the guards of enhanceItemWithSubtitles
ItemImage(i) ==
    CASE i = 1 -> Some(HttpsScheme \o SlashSlash \o VideosHost \o Slash \o PathScenario \o Mp4Ext)
      [] i = 2 -> Some(SlashSlash \o VideosHost \o Slash \o PathScenario \o Mp4Ext)
      [] i = 3 -> Some(HttpScheme \o SlashSlash \o VideosHost \o Slash \o PathShort \o Mp4Ext)
      [] i = 4 -> Some(SlashSlash \o ImagesHost \o Slash \o PathShort \o Mp4Ext)
      [] i = 5 -> Some(HttpsScheme \o SlashSlash \o ImagesHost \o Slash \o PathShort \o JpgExt)
      [] OTHER -> None

\* the element with class item-image-actual the host renders for an item
ElementKind(itemData) ==
    IF ~itemData.image.some THEN "none"
    ELSE IF Includes(itemData.image.val, Mp4Ext) THEN "VIDEO" ELSE "IMG"

\* a freshly created track element for a caption descriptor
TrackFor(subtitle, count) ==
    [src |-> subtitle.path, label |-> subtitle.label, srclang |-> subtitle.language,
     isDefault |-> (subtitle.isDefault \/ count = 1), mode |-> "disabled"]

TracksFor(subtitles) ==
    [n \in 1..Len(subtitles) |-> TrackFor(subtitles[n], Len(subtitles))]

(***************************************************************************)
(* checkSubtitleAvailable and enhanceItemWithSubtitles                     *)
(***************************************************************************)
\* what fetch(vttUrl, {method: 'HEAD'}) can do: answer ok, answer not ok
\* (404), reject (network error), reject after the browser's timeout
ProbeOutcomes == {"ok", "notok", "throw", "timeout"}

\* a plausible slip: no try/catch around the fetch
CheckNoCatch(outcome) ==
    [threw |-> outcome \in {"throw", "timeout"}, value |-> (outcome = "ok")]

checkSubtitleAvailable(outcome) ==
    [threw |-> FALSE, value |-> (outcome = "ok")]

\* a plausible slip: the protocol-relative reference is passed on as it is
NormalizeNothing(image) == image

\* line 61: a protocol-relative reference gets the https: scheme
NormalizeUrl(image) ==
    IF StartsWith(image, SlashSlash) THEN HttpsScheme \o image ELSE image

\* a plausible slip: the "already has captions" guard is missing
EnhanceTargetNoGuard(itemData) ==
    IF ~itemData.image.some \/ itemData.image.val = <<>>
          \/ ~Includes(itemData.image.val, Mp4Ext)
    THEN None
    ELSE generateSubtitleUrl(NormalizeUrl(itemData.image.val))

\* lines 52-66, the synchronous part of enhanceItemWithSubtitles: the URL it
\* goes on to probe, or None when it returns early
EnhanceTarget(itemData) ==
    IF ~itemData.image.some \/ itemData.image.val = <<>>
          \/ ~Includes(itemData.image.val, Mp4Ext)
    THEN None
    ELSE IF Len(itemData.subtitles) > 0
    THEN None
    ELSE generateSubtitleUrl(NormalizeUrl(itemData.image.val))

\* a plausible slip: the descriptor is not marked default
DescriptorNotDefault(vttUrl) ==
    [path |-> vttUrl, label |-> "Deutsch", language |-> "de", isDefault |-> FALSE]

\* lines 72-77: the descriptor attached on success
ModuleDescriptor(vttUrl) ==
    [path |-> vttUrl, label |-> "Deutsch", language |-> "de", isDefault |-> TRUE]

\* lines 68-80: the item's subtitles after the probe has answered
SubtitlesAfterProbe(itemData, vttUrl, avail) ==
    IF ~avail.threw /\ avail.value
    THEN <<ModuleDescriptor(vttUrl)>>
    ELSE itemData.subtitles

(***************************************************************************)
(* The DOM the module reads and writes, as one record                      *)
(***************************************************************************)
Dom == [toggles |-> toggles, autoTimers |-> autoTimers,
        vtracks |-> vtracks, trackInfo |-> trackInfo]

SetDom(d) ==
    /\ toggles' = d.toggles
    /\ autoTimers' = d.autoTimers
    /\ vtracks' = d.vtracks
    /\ trackInfo' = d.trackInfo

\* document.querySelector('.item-image-actual') finds an element
VideoElementFound(doc) ==
    doc # 0 /\ ElementKind(items[doc]) # "none"

\* videoElement.querySelector('track[data-is-default]'): the first one, or 0
DefaultTrack(d, doc) ==
    LET at == { n \in 1..Len(d.vtracks[doc]) : d.trackInfo[d.vtracks[doc][n]].isDefault }
    IN IF at = {} THEN 0
       ELSE d.vtracks[doc][CHOOSE n \in at : \A m \in at : n <= m]

\* lines 182-192 / 138-148: the delayed auto-enable is scheduled
ScheduleAutoEnable(d, doc, call) ==
    IF DefaultTrack(d, doc) # 0
    THEN [d EXCEPT !.autoTimers =
            Append(@, [toggle |-> toggle, track |-> DefaultTrack(d, doc), act |-> call])]
    ELSE d

\* program constant of activateSubtitleControls
maxAttempts == 10

\* a plausible slip: the marker attribute is not consulted
AttachUnguarded(d, doc) ==
    [d EXCEPT !.toggles[toggle].attached = TRUE,
              !.toggles[toggle].listeners = Append(@, doc)]

\* lines 164-179: the change-listener, added only without the marker
AttachOnce(d, doc) ==
    IF d.toggles[toggle].attached
    THEN d
    ELSE [d EXCEPT !.toggles[toggle].attached = TRUE,
                   !.toggles[toggle].listeners = Append(@, doc)]

\* lines 152-193: tryActivate, for the value attempts has when it runs
tryActivate(d, doc, attempts, call) ==
    IF toggle = 0 \/ ~VideoElementFound(doc) \/ attempts >= maxAttempts
    THEN d
    ELSE ScheduleAutoEnable(AttachOnce(d, doc), doc, call)

\* AutoSubtitles.ts lines 115-149: activateSubtitleControls of the view variant
activateSubtitleControlsView(d, doc, call) ==
    IF toggle = 0 \/ ~VideoElementFound(doc)
    THEN d
    ELSE ScheduleAutoEnable(
            [d EXCEPT !.toggles[toggle].listeners = Append(@, doc)], doc, call)

\* a plausible slip: the existing track elements are not removed first
UpdateAppendOnly(d, i) ==
    IF ElementKind(items[i]) # "VIDEO" \/ Len(items[i].subtitles) = 0
    THEN d
    ELSE LET new == TracksFor(items[i].subtitles)
         IN [d EXCEPT !.trackInfo = @ \o new,
                      !.vtracks[i] = @ \o [n \in 1..Len(new) |-> Len(d.trackInfo) + n]]

\* lines 110-142: updateVideoWithSubtitles(itemData, $container)
updateVideoWithSubtitles(d, i) ==
    IF ElementKind(items[i]) # "VIDEO" \/ Len(items[i].subtitles) = 0
    THEN d
    ELSE LET new == TracksFor(items[i].subtitles)
         IN [d EXCEPT !.trackInfo = @ \o new,
                      !.vtracks[i] = [n \in 1..Len(new) |-> Len(d.trackInfo) + n]]

(***************************************************************************)
(* EventHandler.js                                                         *)
(***************************************************************************)
Digits == {"0", "1", "2", "3", "4", "5", "6", "7", "8", "9"}

\* a plausible slip: the pattern lacks the "$" anchor
LocationPatternUnanchored(s) ==
    \E k \in 1..Len(s) : s[k] \in Digits

\* locationPattern = new RegExp('\\d+$'), .test(s): some run of digits ends s
LocationPatternTest(s) ==
    \E k \in 1..Len(s) : \A j \in k..Len(s) : s[j] \in Digits

LocNew == <<"n", "e", "w">>
LocPost == <<"n", "e", "w", "/", "4", "2">>
LocUser == <<"u", "s", "e", "r", "/", "a", "7", "b">>
LocDigits == <<"7">>
LocEmpty == <<>>

\* the values the wrapped methods are called with
Locations == {LocNew, LocPost, LocUser, LocDigits, LocEmpty}

Modes == {0, 1}

Receivers == {"viewA", "viewB"}

Payloads == {"x", "y"}

\* how the host's original method ends: it returns nothing, returns a value,
\* or throws
OrigOutcomes ==
    { [threw |-> FALSE, value |-> "undefined"],
      [threw |-> FALSE, value |-> "result"],
      [threw |-> TRUE, value |-> "error"] }

Undefined == [threw |-> FALSE, value |-> "undefined"]

\* this.$container of a view
ContainerOf(receiver) == <<"$container", receiver>>

\* what happened in a call, in order: the original ran, an event went out
OrigRan(method, receiver, args) ==
    [kind |-> "original", name |-> method, receiver |-> receiver, data |-> args]

Dispatched(name, data) ==
    [kind |-> "dispatch", name |-> name, receiver |-> "window", data |-> data]

\* the constructor, lines 2-12: fresh Event objects, no fields set
EventsInit ==
    [streamLoaded |-> [items |-> "unset", position |-> "unset", error |-> "unset"],
     commentsLoaded |-> <<"unset">>, userSync |-> "unset",
     locationChange |-> [mode |-> "unset", isPost |-> "unset"],
     beforeLocationChange |-> [mode |-> "unset"]]

\* a plausible slip: the event goes out before the payload is stored
LoadedDispatchFirst(ev, receiver, args, out) ==
    IF out.threw
    THEN [events |-> ev, trace |-> <<OrigRan("loaded", receiver, args)>>, result |-> out]
    ELSE [events |-> [ev EXCEPT !.streamLoaded = args],
          trace |-> <<OrigRan("loaded", receiver, args),
                      Dispatched("streamLoaded", ev.streamLoaded)>>,
          result |-> Undefined]

\* lines 19-27: p.View.Stream.Main.prototype.loaded
WrappedLoaded(ev, receiver, args, out) ==
    IF out.threw
    THEN [events |-> ev, trace |-> <<OrigRan("loaded", receiver, args)>>, result |-> out]
    ELSE [events |-> [ev EXCEPT !.streamLoaded = args],
          trace |-> <<OrigRan("loaded", receiver, args),
                      Dispatched("streamLoaded", args)>>,
          result |-> Undefined]

\* lines 39-42: p.View.Settings.prototype.render
WrappedSettingsRender(ev, receiver, args, out) ==
    IF out.threw
    THEN [events |-> ev, trace |-> <<OrigRan("settingsRender", receiver, args)>>,
          result |-> out]
    ELSE [events |-> ev,
          trace |-> <<OrigRan("settingsRender", receiver, args),
                      Dispatched("settingsLoaded", "none")>>,
          result |-> Undefined]

\* a plausible slip: beforeLocationChange goes out after the original ran
NavigateBeforeAfterOriginal(ev, receiver, args, out) ==
    LET ev1 == [ev EXCEPT !.beforeLocationChange.mode = args.mode]
        before == Dispatched("beforeLocationChange", ev1.beforeLocationChange)
        ev2 == [ev1 EXCEPT !.locationChange =
                  [mode |-> args.mode, isPost |-> LocationPatternTest(args.location)]]
    IN IF out.threw
       THEN [events |-> ev,
             trace |-> <<OrigRan("navigateTo", receiver, args)>>,
             result |-> out]
       ELSE [events |-> ev2,
             trace |-> <<OrigRan("navigateTo", receiver, args), before,
                         Dispatched("locationChange", ev2.locationChange)>>,
             result |-> Undefined]

\* lines 47-57: p.navigateTo
WrappedNavigateTo(ev, receiver, args, out) ==
    LET ev1 == [ev EXCEPT !.beforeLocationChange.mode = args.mode]
        before == Dispatched("beforeLocationChange", ev1.beforeLocationChange)
        ev2 == [ev1 EXCEPT !.locationChange =
                  [mode |-> args.mode, isPost |-> LocationPatternTest(args.location)]]
    IN IF out.threw
       THEN [events |-> ev1,
             trace |-> <<before, OrigRan("navigateTo", receiver, args)>>,
             result |-> out]
       ELSE [events |-> ev2,
             trace |-> <<before, OrigRan("navigateTo", receiver, args),
                         Dispatched("locationChange", ev2.locationChange)>>,
             result |-> Undefined]

\* lines 70-75: p.View.Stream.Comments.prototype.render
WrappedCommentsRender(ev, receiver, args, out) ==
    IF out.threw
    THEN [events |-> ev, trace |-> <<OrigRan("commentsRender", receiver, args)>>,
          result |-> out]
    ELSE [events |-> [ev EXCEPT !.commentsLoaded = ContainerOf(receiver)],
          trace |-> <<OrigRan("commentsRender", receiver, args),
                      Dispatched("commentsLoaded", ContainerOf(receiver))>>,
          result |-> Undefined]

\* lines 79-83: p.User.prototype.syncCallback
WrappedSyncCallback(ev, receiver, args, out) ==
    LET ev1 == [ev EXCEPT !.userSync = args]
    IN IF out.threw
       THEN [events |-> ev1, trace |-> <<OrigRan("syncCallback", receiver, args)>>,
             result |-> out]
       ELSE [events |-> ev1,
             trace |-> <<OrigRan("syncCallback", receiver, args),
                         Dispatched("userSync", ev1.userSync)>>,
             result |-> Undefined]

\* lines 61-66: window.onpopstate
OnPopState(ev, pathname) ==
    LET ev1 == [ev EXCEPT !.locationChange =
                  [mode |-> 0, isPost |-> LocationPatternTest(pathname)]]
    IN [events |-> ev1,
        trace |-> <<Dispatched("locationChange", ev1.locationChange)>>,
        result |-> Undefined]

NoCall ==
    [method |-> "none", receiver |-> "none", args |-> "none",
     original |-> Undefined, trace |-> <<>>, result |-> Undefined]

EhIdle ==
    /\ events = EventsInit
    /\ lastCall = NoCall

\* one call of a wrapped method, from the caller's call to its return or throw
Finish(method, receiver, args, out, r) ==
    /\ events' = r.events
    /\ lastCall' = [method |-> method, receiver |-> receiver, args |-> args,
                    original |-> out, trace |-> r.trace, result |-> r.result]
    /\ UNCHANGED <<urlVars, subVars>>

CallLoaded ==
    \E receiver \in Receivers, out \in OrigOutcomes,
       args \in [items : Payloads, position : {"top"}, error : {"none", "failed"}] :
       Finish("loaded", receiver, args, out, WrappedLoaded(events, receiver, args, out))

CallSettingsRender ==
    \E receiver \in Receivers, out \in OrigOutcomes, args \in Payloads :
       Finish("settingsRender", receiver, args, out,
              WrappedSettingsRender(events, receiver, args, out))

CallNavigateTo ==
    \E receiver \in {"p"}, out \in OrigOutcomes,
       args \in [location : Locations, mode : Modes] :
       Finish("navigateTo", receiver, args, out,
              WrappedNavigateTo(events, receiver, args, out))

CallCommentsRender ==
    \E receiver \in Receivers, out \in OrigOutcomes :
       Finish("commentsRender", receiver, "none", out,
              WrappedCommentsRender(events, receiver, "none", out))

CallSyncCallback ==
    \E receiver \in {"user"}, out \in OrigOutcomes, args \in Payloads :
       Finish("syncCallback", receiver, args, out,
              WrappedSyncCallback(events, receiver, args, out))

PopState ==
    \E pathname \in Locations :
       Finish("popstate", "window", pathname, Undefined, OnPopState(events, pathname))

(***************************************************************************)
(* Init                                                                    *)
(***************************************************************************)
UrlIdle ==
    /\ urlParts = [scheme |-> HttpsScheme, sep |-> SlashSlash, host |-> VideosHost,
                   path |-> PathShort, ext |-> Mp4Ext]
    /\ videoUrl = HttpsScheme \o SlashSlash \o VideosHost \o Slash \o PathShort \o Mp4Ext
    /\ urlResult = [called |-> FALSE, ret |-> None]

SubInit ==
    /\ impl \in {"event", "view"}
    /\ items = [i \in ItemIds |->
                  [image |-> ItemImage(i),
                   subtitles |-> IF i = 3 THEN <<HostDe, HostEn>> ELSE <<>>]]
    \* the host has rendered the tracks of the captions it delivered
    /\ trackInfo = TracksFor(<<HostDe, HostEn>>)
    /\ vtracks = [i \in ItemIds |-> IF i = 3 THEN <<1, 2>> ELSE <<>>]
    /\ inv = <<>>
    /\ probeLog = <<>>
    /\ docItem = 0
    /\ hostShown = <<>>
    /\ acts = <<>>
    /\ timers100 = <<>>
    /\ autoTimers = <<>>

\* the page without the video controls
PageEmpty ==
    /\ toggle = 0
    /\ toggles = <<>>

\* the page as the host rendered it: with or without a caption toggle
PageStatic ==
    \/ PageEmpty
    \/ /\ toggle = 1
       /\ toggles = <<[attached |-> FALSE, listeners |-> <<>>, checked |-> FALSE]>>

Init == UrlIdle /\ SubInit /\ PageStatic /\ EhIdle

(***************************************************************************)
(* part_000: the itemOpened handler (lines 90-104)                         *)
(***************************************************************************)
\* an entry of timers100: the handler's setTimeout of invocation k, or the
\* setInterval of activateSubtitleControls call a
TimeoutOf(k) == [inv |-> k, act |-> 0]

IntervalOf(a) == [inv |-> 0, act |-> a]

\* lines 97-103: after the enhancer, the handler sets its 100 ms timeout if
\* the item now has captions
AfterEnhance(subtitles) ==
    IF Len(subtitles) > 0 THEN "timer" ELSE "done"

\* the handler up to its first real suspension: the guards of the enhancer
\* and, if they pass, the HEAD request; if they do not, the rest of the
\* handler (the continuation of an await on a settled promise runs before
\* any other task)
ItemOpened(i) ==
    /\ impl = "event"
    /\ Len(inv) < MaxOpen
    /\ docItem' = i
    /\ LET t == EnhanceTarget(items[i])
           k == Len(inv) + 1
       IN IF t.some
          THEN /\ probeLog' = Append(probeLog, [item |-> i, url |-> t.val])
               /\ inv' = Append(inv, [item |-> i, pc |-> "probing", vttUrl |-> t,
                                      outcome |-> "none", error |-> FALSE,
                                      had |-> Len(items[i].subtitles) > 0,
                                      late |-> FALSE])
               /\ UNCHANGED timers100
          ELSE /\ probeLog' = probeLog
               /\ inv' = Append(inv, [item |-> i, pc |-> AfterEnhance(items[i].subtitles),
                                      vttUrl |-> t, outcome |-> "none", error |-> FALSE,
                                      had |-> Len(items[i].subtitles) > 0,
                                      late |-> FALSE])
               /\ timers100' = IF AfterEnhance(items[i].subtitles) = "timer"
                               THEN Append(timers100, TimeoutOf(k))
                               ELSE timers100
    /\ UNCHANGED <<impl, items, hostShown, toggle, toggles, vtracks, trackInfo,
                   acts, autoTimers>>
    /\ UNCHANGED <<urlVars, ehVars>>

\* another item has been opened since invocation k began
OpenedSince(k) ==
    \E l \in (k + 1)..Len(inv) : inv[l].item # inv[k].item

\* the probe answers; the enhancer finishes and the handler goes on to line 97
ProbeResolveEvent(k, outcome) ==
    /\ impl = "event"
    /\ k \in 1..Len(inv)
    /\ inv[k].pc = "probing"
    /\ LET i == inv[k].item
           avail == checkSubtitleAvailable(outcome)
           subs == SubtitlesAfterProbe(items[i], inv[k].vttUrl.val, avail)
           pc == IF avail.threw THEN "failed" ELSE AfterEnhance(subs)
       IN /\ items' = [items EXCEPT ![i].subtitles = subs]
          /\ inv' = [inv EXCEPT ![k].outcome = outcome,
                                ![k].error = avail.threw,
                                ![k].late = OpenedSince(k),
                                ![k].pc = pc]
          /\ timers100' = IF pc = "timer" THEN Append(timers100, TimeoutOf(k))
                          ELSE timers100
    /\ UNCHANGED <<impl, probeLog, docItem, hostShown, toggle, toggles, vtracks,
                   trackInfo, acts, autoTimers>>
    /\ UNCHANGED <<urlVars, ehVars>>

\* lines 99-102: the 100 ms timeout fires: activateSubtitleControls (its
\* first tryActivate with attempts = 0, attempts++, setInterval), then
\* updateVideoWithSubtitles
TimerCallback(k) ==
    /\ impl = "event"
    /\ timers100 # <<>>
    /\ Head(timers100) = TimeoutOf(k)
    /\ LET call == Len(acts) + 1
           d1 == tryActivate(Dom, docItem, 0, call)
           d2 == updateVideoWithSubtitles(d1, inv[k].item)
       IN /\ SetDom(d2)
          /\ acts' = Append(acts, [attempts |-> 1, active |-> TRUE, item |-> inv[k].item])
          /\ timers100' = Append(Tail(timers100), IntervalOf(call))
    /\ inv' = [inv EXCEPT ![k].pc = "done"]
    /\ UNCHANGED <<impl, items, probeLog, docItem, hostShown, toggle>>
    /\ UNCHANGED <<urlVars, ehVars>>

\* a plausible slip: the budget test is > instead of >=
IntervalDoneOffByOne(attempts) ==
    attempts > maxAttempts \/ toggle # 0

\* line 203: the condition under which the callback clears its interval
IntervalDone(attempts) ==
    attempts >= maxAttempts \/ toggle # 0

\* lines 199-206: one tick of the retry interval of call a
IntervalTick(a) ==
    /\ timers100 # <<>>
    /\ Head(timers100) = IntervalOf(a)
    /\ LET n == acts[a].attempts + 1
           cleared == IntervalDone(n)
       IN /\ SetDom(tryActivate(Dom, docItem, n, a))
          /\ acts' = [acts EXCEPT ![a].attempts = n, ![a].active = ~cleared]
          /\ timers100' = IF cleared THEN Tail(timers100)
                          ELSE Append(Tail(timers100), IntervalOf(a))
    /\ UNCHANGED <<impl, items, inv, probeLog, docItem, hostShown, toggle>>
    /\ UNCHANGED <<urlVars, ehVars>>

\* lines 185-191 / 141-147: the oldest pending auto-enable timeout fires
AutoEnableFire ==
    /\ autoTimers # <<>>
    /\ LET t == Head(autoTimers)
       IN IF trackInfo[t.track].mode # "showing"
          THEN /\ toggles' = [toggles EXCEPT ![t.toggle].checked = TRUE]
               /\ trackInfo' = [trackInfo EXCEPT ![t.track].mode = "showing"]
          ELSE UNCHANGED <<toggles, trackInfo>>
    /\ autoTimers' = Tail(autoTimers)
    /\ UNCHANGED <<impl, items, inv, probeLog, docItem, hostShown, toggle, vtracks,
                   acts, timers100>>
    /\ UNCHANGED <<urlVars, ehVars>>

\* lines 167-178 / 124-135: the user switches the toggle; every listener the
\* module registered on it sets the modes of the tracks of its video element
ToggleChange ==
    /\ toggle # 0
    /\ LET on == ~toggles[toggle].checked
           hit == { id \in 1..Len(trackInfo) :
                      \E l \in 1..Len(toggles[toggle].listeners) :
                         \E n \in 1..Len(vtracks[toggles[toggle].listeners[l]]) :
                            vtracks[toggles[toggle].listeners[l]][n] = id }
       IN /\ toggles' = [toggles EXCEPT ![toggle].checked = on]
          /\ trackInfo' = [id \in 1..Len(trackInfo) |->
                             IF id \in hit
                             THEN [trackInfo[id] EXCEPT !.mode = IF on THEN "showing" ELSE "hidden"]
                             ELSE trackInfo[id]]
    /\ UNCHANGED <<impl, items, inv, probeLog, docItem, hostShown, toggle, vtracks,
                   acts, timers100, autoTimers>>
    /\ UNCHANGED <<urlVars, ehVars>>

(***************************************************************************)
(* AutoSubtitles.ts: the show() override (lines 91-105)                    *)
(***************************************************************************)
\* lines 100-104: this.parent(...) renders the item, then the controls are
\* activated
ShowContinuation(i) ==
    /\ docItem' = i
    /\ hostShown' = Append(hostShown, i)
    /\ SetDom(activateSubtitleControlsView(Dom, i, Len(acts) + 1))
    /\ acts' = Append(acts, [attempts |-> 1, active |-> FALSE, item |-> i])

ShowView(i) ==
    /\ impl = "view"
    /\ Len(inv) < MaxOpen
    /\ LET t == EnhanceTarget(items[i])
       IN IF t.some
          THEN /\ probeLog' = Append(probeLog, [item |-> i, url |-> t.val])
               /\ inv' = Append(inv, [item |-> i, pc |-> "probing", vttUrl |-> t,
                                      outcome |-> "none", error |-> FALSE,
                                      had |-> Len(items[i].subtitles) > 0,
                                      late |-> FALSE])
               /\ UNCHANGED <<docItem, hostShown, toggles, vtracks, trackInfo,
                              acts, autoTimers>>
          ELSE /\ probeLog' = probeLog
               /\ inv' = Append(inv, [item |-> i, pc |-> "done", vttUrl |-> t,
                                      outcome |-> "none", error |-> FALSE,
                                      had |-> Len(items[i].subtitles) > 0,
                                      late |-> FALSE])
               /\ ShowContinuation(i)
    /\ UNCHANGED <<impl, items, toggle, timers100>>
    /\ UNCHANGED <<urlVars, ehVars>>

ProbeResolveView(k, outcome) ==
    /\ impl = "view"
    /\ k \in 1..Len(inv)
    /\ inv[k].pc = "probing"
    /\ LET i == inv[k].item
           avail == checkSubtitleAvailable(outcome)
           subs == SubtitlesAfterProbe(items[i], inv[k].vttUrl.val, avail)
       IN /\ items' = [items EXCEPT ![i].subtitles = subs]
          /\ inv' = [inv EXCEPT ![k].outcome = outcome,
                                ![k].error = avail.threw,
                                ![k].late = OpenedSince(k),
                                ![k].pc = IF avail.threw THEN "failed" ELSE "done"]
          /\ IF avail.threw
             THEN UNCHANGED <<docItem, hostShown, toggles, vtracks, trackInfo,
                              acts, autoTimers>>
             ELSE ShowContinuation(i)
    /\ UNCHANGED <<impl, probeLog, toggle, timers100>>
    /\ UNCHANGED <<urlVars, ehVars>>

(***************************************************************************)
(* The host: the caption toggle comes and goes with the video controls     *)
(***************************************************************************)
HostRenderToggle ==
    /\ Len(toggles) < MaxToggles
    /\ toggles' = Append(toggles, [attached |-> FALSE, listeners |-> <<>>, checked |-> FALSE])
    /\ toggle' = Len(toggles) + 1
    /\ UNCHANGED <<impl, items, inv, probeLog, docItem, hostShown, vtracks,
                   trackInfo, acts, timers100, autoTimers>>
    /\ UNCHANGED <<urlVars, ehVars>>

HostRemoveToggle ==
    /\ toggle # 0
    /\ toggle' = 0
    /\ UNCHANGED <<impl, items, inv, probeLog, docItem, hostShown, toggles, vtracks,
                   trackInfo, acts, timers100, autoTimers>>
    /\ UNCHANGED <<urlVars, ehVars>>

(***************************************************************************)
(* Specifications                                                          *)
(***************************************************************************)
\* what the module does: the handlers, callbacks and timers of both variants
ModuleNext(openable, outcomes) ==
    \/ \E i \in openable : ItemOpened(i)
    \/ \E k \in 1..MaxOpen, o \in outcomes : ProbeResolveEvent(k, o)
    \/ \E k \in 1..MaxOpen : TimerCallback(k)
    \/ \E a \in 1..Len(acts) : IntervalTick(a)
    \/ AutoEnableFire
    \/ \E i \in openable : ShowView(i)
    \/ \E k \in 1..MaxOpen, o \in outcomes : ProbeResolveView(k, o)

\* the workflow on a page that stays as it is: any item of the feed is
\* opened, the probe ends in any way
Next == ModuleNext(ItemIds, ProbeOutcomes)

Spec == Init /\ [][Next]_vars

\* the activator on a page that changes: two video items are opened while
\* the host renders and removes the toggle and the user switches it
DomItems == {1, 3}

DomOutcomes == {"ok", "notok"}

DomInit == UrlIdle /\ SubInit /\ PageEmpty /\ EhIdle

DomNext ==
    \/ ModuleNext(DomItems, DomOutcomes)
    \/ ToggleChange
    \/ HostRenderToggle
    \/ HostRemoveToggle

SpecDom == DomInit /\ [][DomNext]_vars

\* the polling of the activator on its own: a captioned video and an item
\* without media element are opened on the changing page, and timers fire
PollItems == {3, 6}

PollInit == DomInit /\ impl = "event"

PollNext ==
    \/ \E i \in PollItems : ItemOpened(i)
    \/ \E k \in 1..MaxOpen : TimerCallback(k)
    \/ \E a \in 1..Len(acts) : IntervalTick(a)
    \/ AutoEnableFire
    \/ ToggleChange
    \/ HostRenderToggle
    \/ HostRemoveToggle

\* a timer that is set fires: the browser runs the callback of the oldest
\* pending 100 ms timer
TimerStep ==
    \/ \E k \in 1..MaxOpen : TimerCallback(k)
    \/ \E a \in 1..MaxOpen : IntervalTick(a)

SpecPoll == PollInit /\ [][PollNext]_vars /\ WF_vars(TimerStep)

(***************************************************************************)
(* The URL deriver on its own: every input built from the pieces below     *)
(***************************************************************************)
UrlSchemes == {HttpsScheme, HttpScheme, FtpScheme, XHttpsScheme, NoScheme}

UrlSeparators == {SlashSlash, Slash}

UrlHosts == {VideosHost, ImagesHost, LookalikeHost}

UrlPaths == {PathShort, PathScenario, PathDotted, PathNewline, PathEmpty}

UrlExts == {Mp4Ext, WebmExt, Mp4QueryExt, UpperMp4Ext}

UrlInputs ==
    [scheme : UrlSchemes, sep : UrlSeparators, host : UrlHosts,
     path : UrlPaths, ext : UrlExts]

UrlOf(parts) ==
    parts.scheme \o parts.sep \o parts.host \o Slash \o parts.path \o parts.ext

NotCalled == [called |-> FALSE, ret |-> None]

UrlInit ==
    /\ SubInit
    /\ PageEmpty
    /\ impl = "event"
    /\ UrlIdle
    /\ EhIdle

CallGenerate ==
    /\ ~urlResult.called
    /\ urlResult' = [called |-> TRUE, ret |-> generateSubtitleUrl(videoUrl)]
    /\ UNCHANGED <<urlParts, videoUrl>>
    /\ UNCHANGED <<subVars, ehVars>>

\* the caller passes another URL
NextUrl ==
    /\ urlResult.called
    /\ urlParts' \in UrlInputs
    /\ videoUrl' = UrlOf(urlParts')
    /\ urlResult' = NotCalled
    /\ UNCHANGED <<subVars, ehVars>>

UrlNext == CallGenerate \/ NextUrl

SpecUrl == UrlInit /\ [][UrlNext]_vars

(***************************************************************************)
(* EventHandler.js on its own                                              *)
(***************************************************************************)
EhInit == UrlIdle /\ SubInit /\ PageEmpty /\ impl = "event" /\ EhIdle

EhNext ==
    \/ CallLoaded
    \/ CallSettingsRender
    \/ CallNavigateTo
    \/ CallCommentsRender
    \/ CallSyncCallback
    \/ PopState

SpecEvents == EhInit /\ [][EhNext]_vars

(***************************************************************************)
(* Properties of generateSubtitleUrl (SpecUrl)                             *)
(***************************************************************************)
\* the captions URL the specification names for an input built from parts
ExpectedVtt(parts) ==
    Some(HttpsScheme \o SlashSlash \o ImagesHost \o Slash \o parts.path \o VttSuffix)

\* scheme://videos.pr0gramm.com/<path>.mp4 with any scheme and a non-empty path
ShapeAnyScheme(parts) ==
    /\ parts.scheme # NoScheme
    /\ parts.sep = SlashSlash
    /\ parts.host = VideosHost
    /\ parts.path # PathEmpty
    /\ parts.ext = Mp4Ext

\* the same with the scheme http or https and no line break in the path
ShapeHttp(parts) ==
    /\ parts.scheme \in {HttpScheme, HttpsScheme}
    /\ parts.sep = SlashSlash
    /\ parts.host = VideosHost
    /\ parts.path # PathEmpty
    /\ \A n \in 1..Len(parts.path) : parts.path[n] \notin LineTerminators
    /\ parts.ext = Mp4Ext

\* C1 as claimed: every input scheme://videos.pr0gramm.com/<path>.mp4, with any
\* scheme and a non-empty path, yields https://images.pr0gramm.com/<path>-de.vtt
\* and every other input yields null.
C1_AnySchemeAllowList ==
    urlResult.called =>
       urlResult.ret = IF ShapeAnyScheme(urlParts) THEN ExpectedVtt(urlParts) ELSE None

\* C1 as amended: the inputs that yield https://images.pr0gramm.com/<path>-de.vtt
\* are exactly those of the shape http(s)://videos.pr0gramm.com/<path>.mp4 with
\* a non-empty path free of line terminators; every other input yields null.
C1_HttpAllowList ==
    urlResult.called =>
       urlResult.ret = IF ShapeHttp(urlParts) THEN ExpectedVtt(urlParts) ELSE None

\* an http:// input of the shape has been converted, to an https:// URL
C1_Witness ==
    /\ urlResult.called
    /\ urlParts.scheme = HttpScheme
    /\ ShapeHttp(urlParts)
    /\ urlResult.ret.some
    /\ StartsWith(urlResult.ret.val, HttpsScheme)

(***************************************************************************)
(* Properties of the enhancer and the handler (Spec)                       *)
(***************************************************************************)
\* the step is the call of the enhancer for item i (by either variant)
Invoked(i) ==
    /\ Len(inv') = Len(inv) + 1
    /\ inv'[Len(inv')].item = i

\* the step is the answer of the probe of invocation k
Answered(k) ==
    /\ k \in 1..Len(inv)
    /\ inv[k].pc = "probing"
    /\ inv'[k].pc # "probing"

FailOutcomes == {"notok", "throw", "timeout"}

\* the number of HEAD requests issued for item i
ProbesOf(i) == Cardinality({n \in 1..Len(probeLog) : probeLog[n].item = i})

\* C2: a call of enhanceItemWithSubtitles on an item whose subtitles list is
\* non-empty issues no probe and leaves every item record as it was.
C2_CaptionedItemUntouched ==
    [][\A i \in ItemIds :
          (Invoked(i) /\ Len(items[i].subtitles) > 0) =>
             (probeLog' = probeLog /\ items' = items)]_vars

\* an item that gained its captions from the module was opened again
C2_Witness ==
    \E k \in 1..Len(inv) :
       /\ inv[k].item = 1
       /\ inv[k].had
       /\ ~inv[k].vttUrl.some
       /\ ProbesOf(1) = 1

\* C3 as claimed: when the probe throws, times out or answers not-ok, the
\* enhancer completes without an error, the item is left without captions and
\* the handler goes on to create no track elements.
C3_FailedProbeLeavesNoCaptions ==
    [][\A k \in 1..MaxOpen :
          (Answered(k) /\ inv'[k].outcome \in FailOutcomes) =>
             /\ ~inv'[k].error
             /\ items'[inv[k].item].subtitles = <<>>
             /\ inv'[k].pc = "done"
             /\ timers100' = timers100
             /\ vtracks' = vtracks]_vars

\* C3 as amended: when the probe throws, times out or answers not-ok, the
\* enhancer completes without an error and changes no item record; if the item
\* has no captions at that moment it stays without, and the handler schedules
\* no track creation (it does so only for captions another invocation for the
\* same item attached meanwhile).
C3_FailedProbeAttachesNothing ==
    [][\A k \in 1..MaxOpen :
          (Answered(k) /\ inv'[k].outcome \in FailOutcomes) =>
             /\ ~inv'[k].error
             /\ inv'[k].pc # "failed"
             /\ items' = items
             /\ vtracks' = vtracks
             /\ trackInfo' = trackInfo
             /\ (Len(items[inv[k].item].subtitles) = 0 =>
                   /\ inv'[k].pc = "done"
                   /\ timers100' = timers100)]_vars

\* a probe has thrown, one has timed out, one was answered not-ok, and the
\* items stayed without captions and without tracks
C3_Witness ==
    /\ \E k \in 1..Len(inv) :
          /\ inv[k].outcome \in {"throw", "timeout"}
          /\ inv[k].pc = "done"
          /\ items[inv[k].item].subtitles = <<>>
          /\ vtracks[inv[k].item] = <<>>
    /\ \E k \in 1..Len(inv) :
          /\ inv[k].outcome = "notok"
          /\ inv[k].pc = "done"
          /\ items[inv[k].item].subtitles = <<>>

\* the captions URL of the scenario of the specification, which is the one
\* derived from the references of items 1 and 2
ScenarioVtt ==
    HttpsScheme \o SlashSlash \o ImagesHost \o Slash \o PathScenario \o VttSuffix

\* C4: once the probe of an invocation for a caption-less item with a matching
\* video reference has succeeded, the item carries exactly one descriptor: its
\* source is the derived captions URL, its language "de", and it is default.
C4_OneDefaultGermanDescriptor ==
    \A k \in 1..Len(inv) :
       inv[k].outcome = "ok" =>
          LET subs == items[inv[k].item].subtitles
          IN /\ inv[k].item \in {1, 2}
             /\ Len(subs) = 1
             /\ subs[1].path = ScenarioVtt
             /\ subs[1].language = "de"
             /\ subs[1].isDefault = TRUE

\* the scenario: the item with the explicit https reference was probed with
\* success and the handler has finished
C4_Witness ==
    \E k \in 1..Len(inv) :
       /\ inv[k].item = 1
       /\ inv[k].outcome = "ok"
       /\ inv[k].pc = "done"
       /\ Len(items[1].subtitles) = 1

\* the video references of the feed, by item
FeedImages ==
    <<ItemImage(1), ItemImage(2), ItemImage(3), ItemImage(4), ItemImage(5), ItemImage(6)>>

\* the items of the feed the host renders with a video element
VideoItems ==
    { j : j \in { i \in ItemIds :
                     ElementKind([image |-> ItemImage(i), subtitles |-> <<>>]) = "VIDEO" } }

\* the pairs of items of the feed of which the first has a protocol-relative
\* reference and the second the https: form of it
ExplicitPairs ==
    { q : q \in { p \in ItemIds \X ItemIds :
                     /\ ItemImage(p[1]).some
                     /\ ItemImage(p[2]).some
                     /\ StartsWith(ItemImage(p[1]).val, SlashSlash)
                     /\ ItemImage(p[2]).val = HttpsScheme \o ItemImage(p[1]).val } }

\* item i has a protocol-relative reference and item j the https: form of it
ExplicitFormOf(i, j) ==
    /\ <<i, j>> \in ExplicitPairs
    /\ items[i].image = FeedImages[i]
    /\ items[j].image = FeedImages[j]

\* C5: for an item with a protocol-relative reference the enhancer derives and
\* probes the same captions URL, and attaches the same descriptor, as for the
\* item with the explicit https: form of that reference.
C5_ProtocolRelativeSameUrl ==
    \A k, l \in 1..Len(inv) :
       ExplicitFormOf(inv[k].item, inv[l].item) =>
          LET i == inv[k].item
              j == inv[l].item
          IN /\ (~inv[k].had /\ ~inv[l].had) =>
                   /\ inv[k].vttUrl.some
                   /\ inv[k].vttUrl = inv[l].vttUrl
             /\ \A m, n \in 1..Len(probeLog) :
                   (probeLog[m].item = i /\ probeLog[n].item = j) =>
                      probeLog[m].url = probeLog[n].url
             /\ ~inv[k].had => ProbesOf(i) > 0
             /\ (Len(items[i].subtitles) > 0 /\ Len(items[j].subtitles) > 0) =>
                   items[i].subtitles = items[j].subtitles

\* both forms of the reference were opened, probed with success and captioned
C5_Witness ==
    /\ ExplicitFormOf(2, 1)
    /\ ProbesOf(1) > 0
    /\ ProbesOf(2) > 0
    /\ Len(items[1].subtitles) > 0
    /\ Len(items[2].subtitles) > 0

\* C9: once updateVideoWithSubtitles has run for an item with a video element,
\* however often, the element holds exactly one track per caption descriptor
\* of the item, in the order of the descriptors, and no other track.
C9_TracksMirrorDescriptors ==
    impl = "event" =>
       \A a \in 1..Len(acts) :
          LET i == acts[a].item
              subs == items[i].subtitles
          IN (i \in VideoItems /\ items[i].image = FeedImages[i]) =>
                /\ Len(vtracks[i]) = Len(subs)
                /\ \A n \in 1..Len(vtracks[i]) :
                      /\ trackInfo[vtracks[i][n]].src = subs[n].path
                      /\ trackInfo[vtracks[i][n]].label = subs[n].label
                      /\ trackInfo[vtracks[i][n]].srclang = subs[n].language
                /\ \A m, n \in 1..Len(vtracks[i]) :
                      m # n => vtracks[i][m] # vtracks[i][n]

\* updateVideoWithSubtitles has run twice on the video of the item with two
\* descriptors, which held the host's tracks before
C9_Witness ==
    /\ impl = "event"
    /\ Len(items[3].subtitles) = 2
    /\ \E a, b \in 1..Len(acts) : a # b /\ acts[a].item = 3 /\ acts[b].item = 3
    /\ Len(vtracks[3]) = 2

\* C10 as claimed: over any sequence of openings the probe is issued at most
\* once per item.
C10_OneProbePerItem ==
    \A i \in ItemIds : ProbesOf(i) <= 1

\* the invocations for item i that found it without captions
OpeningsWithoutCaptions(i) ==
    {k \in 1..Len(inv) : inv[k].item = i /\ ~inv[k].had}

\* C10 as amended: the probe is issued exactly once per invocation of the
\* enhancer that finds an allow-listed item without captions, and by no other
\* invocation; so an item that is opened again before it has gained captions
\* (after a failed probe, or while a probe is in flight) is probed again.
C10_OneProbePerOpening ==
    \A i \in ItemIds :
       ProbesOf(i) = IF i \in {1, 2} THEN Cardinality(OpeningsWithoutCaptions(i)) ELSE 0

\* an item was opened twice and probed twice: the first probe failed, the
\* second succeeded
C10_Witness ==
    \E k, l \in 1..Len(inv) :
       /\ k < l
       /\ inv[k].item = 2
       /\ inv[l].item = 2
       /\ inv[k].outcome \in FailOutcomes
       /\ inv[l].outcome = "ok"
       /\ ProbesOf(2) = 2

\* the invocations for item i that executed the assignment of line 72: those
\* whose probe answered ok
Assignments(i) ==
    {k \in 1..Len(inv) : inv[k].item = i /\ inv[k].outcome = "ok"}

\* C11: under every interleaving of invocations, two for the same item with
\* both probes in flight included, the subtitles list of an item is assigned
\* at most once.
C11_AssignedAtMostOnce ==
    \A i \in ItemIds : Cardinality(Assignments(i)) <= 1

\* the rest of C11: an item record changes only in the step in which a probe
\* for that item answers ok, and the captions the host delivered never change
C11_AssignedOnlyOnSuccess ==
    [][\A i \in ItemIds :
          items'[i] # items[i] =>
             /\ \E k \in 1..MaxOpen :
                   Answered(k) /\ inv[k].item = i /\ inv'[k].outcome = "ok"
             /\ items[i].subtitles = <<>>]_vars

\* item i of the feed has no video reference
NoReference(i) ==
    ~ItemImage(i).some \/ ItemImage(i).val = <<>>

\* the reference of item i does not contain ".mp4"
NotMp4(i) ==
    ~NoReference(i) /\ ~Includes(ItemImage(i).val, Mp4Ext)

\* the reference of item i, with https: put before a leading "//", is not
\* http(s)://videos.pr0gramm.com/<something>.mp4
OffPattern(i) ==
    /\ ~NoReference(i)
    /\ LET ref == ItemImage(i).val
           full == IF StartsWith(ref, SlashSlash) THEN HttpsScheme \o ref ELSE ref
           head == { h \in {HttpScheme, HttpsScheme} :
                       StartsWith(full, h \o SlashSlash \o VideosHost \o Slash) }
       IN \/ head = {}
          \/ ~EndsWith(full, Mp4Ext)
          \/ \A h \in head :
                Len(full) <= Len(h) + Len(SlashSlash) + Len(VideosHost) + Len(Slash) + Len(Mp4Ext)

\* the items of the feed outside the allow-list
OutsideItems ==
    { j : j \in { i \in ItemIds : NoReference(i) \/ NotMp4(i) \/ OffPattern(i) } }

\* the item records as the host delivered them
FeedItem(i) ==
    [image |-> FeedImages[i], subtitles |-> <<>>]

OutsideAllowList(i) ==
    i \in OutsideItems /\ items[i].image = FeedImages[i]

\* C19: for an item without a video reference, with a reference that does not
\* contain ".mp4", or with one that does not match the videos-host pattern, no
\* HEAD request is issued, no error is raised and the item stays as it was;
\* every HEAD request that is issued goes to the captions URL
\* https://images.pr0gramm.com/<path>-de.vtt derived from the item's reference.
C19_NoProbeOutsideAllowList ==
    /\ \A i \in ItemIds :
          OutsideAllowList(i) =>
             /\ ProbesOf(i) = 0
             /\ items[i] = FeedItem(i)
             /\ \A k \in 1..Len(inv) :
                   inv[k].item = i =>
                      /\ ~inv[k].error
                      /\ inv[k].pc = "done"
                      /\ ~inv[k].vttUrl.some
    /\ \A n \in 1..Len(probeLog) :
          /\ probeLog[n].item \notin OutsideItems
          /\ probeLog[n].url = ScenarioVtt

\* an .mp4 on another host was opened and not probed, and a video of the
\* videos host was opened and probed at its captions URL
C19_Witness ==
    /\ \E k \in 1..Len(inv) : inv[k].item = 4 /\ inv[k].pc = "done"
    /\ OutsideAllowList(4) /\ OutsideAllowList(5) /\ OutsideAllowList(6)
    /\ Len(probeLog) = 1
    /\ probeLog[1] = [item |-> 2, url |-> ScenarioVtt]

(***************************************************************************)
(* Properties of the activator (Spec)                                      *)
(***************************************************************************)
\* C8: a toggle element carries at most one change-listener of the module,
\* whichever variant is loaded and however often the controls are activated.
C8_SingleListener ==
    \A g \in 1..Len(toggles) : Len(toggles[g].listeners) <= 1

\* the part of C8 about part_000 alone
C8_EventVariantSingleListener ==
    impl = "event" => C8_SingleListener

\* the step is a tick of the retry interval of activation call a
Ticked(a) ==
    /\ a \in 1..Len(acts)
    /\ acts'[a].attempts = acts[a].attempts + 1

\* the step clears the retry interval of activation call a
Cleared(a) ==
    /\ a \in 1..Len(acts)
    /\ acts[a].active
    /\ ~acts'[a].active

\* C12: the retry interval of an activation call is cleared only when the
\* toggle and the video element were both found and the toggle carries the
\* change-listener, or when the attempt budget is used up; after a tick that
\* found one of the two elements missing, with budget left, it is still set.
C12_CancelledOnlyWhenTerminal ==
    [][\A a \in 1..MaxOpen :
          /\ Cleared(a) =>
                \/ acts'[a].attempts >= maxAttempts
                \/ /\ toggle # 0
                   /\ VideoElementFound(docItem)
                   /\ toggles'[toggle].attached
          /\ (/\ Ticked(a)
              /\ toggle = 0 \/ ~VideoElementFound(docItem)
              /\ acts'[a].attempts < maxAttempts) => acts'[a].active]_vars

\* what the code does instead: the interval is cleared exactly when the budget
\* is used up or the toggle alone is in the document
C12_CancelledOnToggleAlone ==
    [][\A a \in 1..MaxOpen :
          Ticked(a) =>
             (~acts'[a].active <=> (acts'[a].attempts >= maxAttempts \/ toggle # 0))]_vars

\* C13: every activation call ends its polling: it makes at most maxAttempts
\* attempts, its interval is eventually cleared whatever happens to the toggle,
\* and a cleared interval makes no further attempt and is not pending.
C13_PollingTerminates ==
    /\ [](\A a \in 1..Len(acts) :
            /\ acts[a].attempts <= maxAttempts
            /\ ~acts[a].active =>
                  \A n \in 1..Len(timers100) : timers100[n] # IntervalOf(a))
    /\ [][\A a \in 1..MaxOpen :
             (a <= Len(acts) /\ ~acts[a].active) => acts'[a] = acts[a]]_vars
    /\ \A a \in 1..MaxOpen :
          [](a <= Len(acts) => <>(a <= Len(acts) /\ ~acts[a].active))

\* the toggle came and went and an activation call used up its budget: ten
\* attempts, then cleared
C13_Witness ==
    /\ impl = "event"
    /\ Len(toggles) = 1
    /\ toggle = 0
    /\ \E a \in 1..Len(acts) :
          ~acts[a].active /\ acts[a].attempts = maxAttempts

\* the pending auto-enable timeouts that activation call a has set
PendingAutoEnables(a) ==
    {n \in 1..Len(autoTimers) : autoTimers[n].act = a}

\* C14: one activation call sets at most one delayed auto-enable, so no second
\* timeout of the same call is pending that could switch the toggle and a
\* track on again after the user has switched them off.
C14_OneAutoEnablePerCall ==
    \A a \in 1..Len(acts) : Cardinality(PendingAutoEnables(a)) <= 1

\* what the code does: the immediate attempt and the first tick that finds the
\* toggle each set one, so at most two are pending for a call
C14_TwoAutoEnablesPerCall ==
    \A a \in 1..Len(acts) : Cardinality(PendingAutoEnables(a)) <= 2

\* the step is the 100 ms timeout of invocation k, whose probe was answered
\* after another item had been opened; that item is the one in the document
LateContinuation(k) ==
    /\ k \in 1..Len(inv)
    /\ inv[k].pc = "timer"
    /\ inv'[k].pc = "done"
    /\ inv[k].late
    /\ docItem # inv[k].item

\* C15: when the workflow of item A continues after another item B has been
\* opened, it attaches no listener to the toggle in the document, sets no
\* auto-enable on it, and leaves the tracks of B's video as they are.
C15_LateContinuationIsolated ==
    [][\A k \in 1..MaxOpen :
          LateContinuation(k) =>
             /\ toggles' = toggles
             /\ autoTimers' = autoTimers
             /\ vtracks'[docItem] = vtracks[docItem]
             /\ \A n \in 1..Len(trackInfo) : trackInfo'[n] = trackInfo[n]]_vars

\* the part of C15 that holds: the late continuation changes no item record
\* and creates tracks in no container but A's own
C15_LateContinuationOwnContainer ==
    [][\A k \in 1..MaxOpen :
          LateContinuation(k) =>
             /\ items' = items
             /\ \A i \in ItemIds : i # inv[k].item => vtracks'[i] = vtracks[i]
             /\ \A n \in 1..Len(trackInfo) : trackInfo'[n] = trackInfo[n]]_vars

\* every show() call made so far has run to its end
AllShowsComplete ==
    \A k \in 1..Len(inv) : inv[k].pc # "probing"

\* C16: in the view variant, when show(A) awaited its probe while show(B) was
\* called, the host's original show calls have run in the order of the calls
\* once both are complete, and the item in the document is the one requested
\* last.
C16_LastRequestedIsShown ==
    (/\ impl = "view"
     /\ AllShowsComplete
     /\ \E k \in 1..Len(inv) : inv[k].late) =>
       /\ hostShown = [k \in 1..Len(inv) |-> inv[k].item]
       /\ docItem = inv[Len(inv)].item

\* the part of C16 that holds: every show() call reaches the host's original
\* show exactly once
C16_EveryShowRendered ==
    (impl = "view" /\ AllShowsComplete) =>
       /\ Len(hostShown) = Len(inv)
       /\ \A i \in ItemIds :
             Cardinality({n \in 1..Len(hostShown) : hostShown[n] = i})
                = Cardinality({k \in 1..Len(inv) : inv[k].item = i})

\* the step is a change event of the toggle in the document, on which the
\* module has a listener
ChangeHandled ==
    /\ toggle # 0
    /\ toggles'[toggle].checked # toggles[toggle].checked
    /\ autoTimers' = autoTimers
    /\ Len(toggles[toggle].listeners) > 0

\* the display mode the toggle asks for after the step
ModeAsked ==
    IF toggles'[toggle].checked THEN "showing" ELSE "hidden"

\* C17: after a change event the module's listener handled, every track of
\* the video element in the document has the mode the toggle asks for, also
\* when that element is not the one the listener was attached with.
C17_ActiveTracksFollowToggle ==
    [][(ChangeHandled /\ docItem # 0) =>
          \A n \in 1..Len(vtracks[docItem]) :
             trackInfo'[vtracks[docItem][n]].mode = ModeAsked]_vars

\* the part of C17 that holds: the tracks of the video element a listener was
\* attached with have the mode the toggle asks for
C17_BoundTracksFollowToggle ==
    [][ChangeHandled =>
          \A l \in 1..Len(toggles[toggle].listeners) :
             \A n \in 1..Len(vtracks[toggles[toggle].listeners[l]]) :
                trackInfo'[vtracks[toggles[toggle].listeners[l]][n]].mode = ModeAsked]_vars

(***************************************************************************)
(* Properties of EventHandler (SpecEvents)                                 *)
(***************************************************************************)
WrappedMethods ==
    {"loaded", "settingsRender", "navigateTo", "commentsRender", "syncCallback"}

\* the notification named after the method
NotificationOf(method) ==
    CASE method = "loaded" -> "streamLoaded"
      [] method = "settingsRender" -> "settingsLoaded"
      [] method = "navigateTo" -> "locationChange"
      [] method = "commentsRender" -> "commentsLoaded"
      [] method = "syncCallback" -> "userSync"

\* C6: the wrapper returns what the original returned for the call and throws
\* exactly when the original throws.
C6_ResultPreserved ==
    lastCall.method \in WrappedMethods => lastCall.result = lastCall.original

\* the payload of the call, as far as the arguments fix it
PayloadOfCall(c, data) ==
    CASE c.method = "loaded" -> data = c.args
      [] c.method = "settingsRender" -> data = "none"
      [] c.method = "navigateTo" -> data.mode = c.args.mode
      [] c.method = "commentsRender" -> data = ContainerOf(c.receiver)
      [] c.method = "syncCallback" -> data = c.args

TraceAt(kind, name) ==
    {n \in 1..Len(lastCall.trace) :
        lastCall.trace[n].kind = kind /\ lastCall.trace[n].name = name}

\* C18: in a navigateTo(location, mode) call that returns normally,
\* beforeLocationChange goes out once, with that mode, then the original
\* navigation runs once, then locationChange goes out once, with that mode;
\* nothing else happens in the call.
C18_BeforeOriginalAfter ==
    (lastCall.method = "navigateTo" /\ ~lastCall.result.threw) =>
       LET t == lastCall.trace
       IN /\ Len(t) = 3
          /\ TraceAt("dispatch", "beforeLocationChange") = {1}
          /\ TraceAt("original", "navigateTo") = {2}
          /\ TraceAt("dispatch", "locationChange") = {3}
          /\ t[1].data.mode = lastCall.args.mode
          /\ t[2].data = lastCall.args
          /\ t[3].data.mode = lastCall.args.mode

\* a navigation to a post with mode 1 returned normally and was notified
C18_Witness ==
    /\ lastCall.method = "navigateTo"
    /\ ~lastCall.result.threw
    /\ lastCall.args = [location |-> LocPost, mode |-> 1]
    /\ Len(lastCall.trace) = 3
    /\ lastCall.trace[3].data = [mode |-> 1, isPost |-> TRUE]

\* s ends in a decimal digit
EndsInDigit(s) ==
    Len(s) > 0 /\ s[Len(s)] \in Digits

\* the location a navigation call is about: the argument of navigateTo, the
\* pathname of the window on popstate
NavigatedLocation ==
    IF lastCall.method = "navigateTo" THEN lastCall.args.location ELSE lastCall.args

\* C20: every locationChange notification carries isPost = TRUE exactly when
\* the navigated location ends in a decimal digit, whatever was navigated to
\* before, and a notification caused by popstate carries mode 0.
C20_IsPostFromLocation ==
    lastCall.method \in {"navigateTo", "popstate"} =>
       /\ \A n \in TraceAt("dispatch", "locationChange") :
             /\ lastCall.trace[n].data.isPost = EndsInDigit(NavigatedLocation)
             /\ lastCall.method = "popstate" => lastCall.trace[n].data.mode = 0
       /\ lastCall.method = "popstate" =>
             TraceAt("dispatch", "locationChange") = {1}

\* after other calls, a popstate on a post location was notified with mode 0
\* and isPost = TRUE
C20_Witness ==
    /\ lastCall.method = "popstate"
    /\ lastCall.args = LocPost
    /\ events.userSync # "unset"
    /\ lastCall.trace[1].data = [mode |-> 0, isPost |-> TRUE]

====
